---- MODULE Spec2Model ----
(***************************************************************************)
(* Trivia API backend (backend/flaskr/__init__.py): the request handlers   *)
(* for questions, search, category scoping and the quiz selector, over a   *)
(* record store of Question and Category rows.                             *)
(*                                                                         *)
(* Text values (question text, answer text, category references, search    *)
(* terms) are sequences of one-character strings, so that substring and    *)
(* pattern matching are computed and not assumed.                          *)
(***************************************************************************)
EXTENDS Integers, Sequences, FiniteSets, TLC

VARIABLES
    questions,            \* the questions table, in store order
    categories,           \* the categories table: a set of [id, type] rows
    next_id,              \* the store's next question identifier
    request,              \* the request being (or last) handled
    response,             \* the response of the last completed request
    paginated_questions,  \* the handler's local result of paginate (<<>> if not called)
    pc,                   \* "idle", or "while" inside get_quiz_question's loop
    quiz_questions,       \* get_quiz_question's local `questions`
    previous_questions,   \* get_quiz_question's local `previous_questions`
    next_question,        \* get_quiz_question's local `next_question`
    is_question_old,      \* get_quiz_question's local `is_question_old`
    sess_category,        \* quiz client: the category selector of its session
    sess_served,          \* quiz client: ids it was served, in order
    sess_state            \* quiz client: "ready", "waiting", "over", "failed"

storeVars == <<questions, categories, next_id>>
quizVars == <<pc, quiz_questions, previous_questions, next_question, is_question_old>>
sessVars == <<sess_category, sess_served, sess_state>>
vars == <<questions, categories, next_id, request, response, paginated_questions,
          pc, quiz_questions, previous_questions, next_question, is_question_old,
          sess_category, sess_served, sess_state>>

(***************************************************************************)
(* Bounds of the model.                                                    *)
(***************************************************************************)
MaxId == 3          \* largest identifier create_question may assign in Spec
MaxTermLen == 2     \* longest search term
MaxQuiz == 3        \* questions in a store of QuizSpec / SessionSpec
MaxPrev == 2        \* longest previous_questions list of a quiz request
MaxItems == 21      \* questions in a store of PagSpec
MaxPage == 3        \* largest page number requested

QUESTIONS_PER_PAGE == 10

(***************************************************************************)
(* Values.                                                                 *)
(***************************************************************************)
Range(s) == {s[i] : i \in 1..Len(s)}
Min(a, b) == IF a < b THEN a ELSE b
Max(a, b) == IF a > b THEN a ELSE b

\* An optional value (a dict key or query argument that may be absent):
\* <<>> when absent, <<v>> when present.
Opt(S) == {<<>>} \cup {<<v>> : v \in S}
Has(o) == o # <<>>
Get(o) == o[1]

\* Python values whose type matters to a comparison: int and str.
PyInt(n) == [t |-> "int", n |-> n, s |-> <<>>]
PyStr(s) == [t |-> "str", n |-> 0, s |-> s]

Digit(d) == <<"0", "1", "2", "3", "4", "5", "6", "7", "8", "9">>[d + 1]

\* str(n) for a non-negative int: its decimal digits.
RECURSIVE str(_)
str(n) == IF n < 10 THEN <<Digit(n)>> ELSE str(n \div 10) \o <<Digit(n % 10)>>

\* list[start:end] of Python, on a 1-based sequence: negative indices count
\* from the end, out-of-range indices are clamped, an empty window is [].
PySlice(s, start, end) ==
    LET n == Len(s)
        norm(i) == IF i < 0 THEN Max(n + i, 0) ELSE Min(i, n)
        a == norm(start)
        b == norm(end)
    IN  IF a < b THEN SubSeq(s, a + 1, b) ELSE <<>>

TextA == <<"A", "b">>
TextB == <<"b", "a">>
AnswerX == <<"x">>
CatRefs == {str(1), str(2)}
SeedCategories == {[id |-> 1, type |-> "Science"], [id |-> 2, type |-> "Art"]}
TermChars == {"a", "B", "_"}

RECURSIVE SeqsUpTo(_, _)
SeqsUpTo(S, n) ==
    IF n = 0 THEN {<<>>}
    ELSE LET shorter == SeqsUpTo(S, n - 1)
         IN  shorter \cup {Append(s, x) : s \in {t \in shorter : Len(t) = n - 1}, x \in S}

(***************************************************************************)
(* The record store (models.py): Question and Category.                    *)
(***************************************************************************)
Row(id, q, a, c, d) == [id |-> id, question |-> q, answer |-> a, category |-> c, difficulty |-> d]

\* Question.format(): the row as a dict for the response.
format(row) ==
    [id |-> row.id, question |-> row.question, answer |-> row.answer,
     category |-> row.category, difficulty |-> row.difficulty]

\* Question.query.get(id): the row with that id, as Opt.
QueryGet(id) ==
    LET hits == SelectSeq(questions, LAMBDA r : r.id = id)
    IN  IF hits = <<>> THEN <<>> ELSE <<hits[1]>>

\* The category column holds text: a bound value is compared in the
\* column's representation.
Native(v) == IF v.t = "int" THEN str(v.n) ELSE v.s

\* Question.query.filter_by(category=v).all()
FilterByCategory(v) == SelectSeq(questions, LAMBDA r : r.category = Native(v))

\* Category.query.filter_by(id=id).one_or_none()
CategoryById(id) == {c \in categories : c.id = id}

\* The store accepts a row on insert only if it passes its validation.
StoreValid(row) == row.answer # <<>>

(***************************************************************************)
(* paginate                                                                *)
(***************************************************************************)
\* paginate with the window starting one page late (start = page * 10).
paginate_offbyone(args, selections) ==
    LET page == IF Has(args.page) THEN Get(args.page) ELSE 1
        start == page * QUESTIONS_PER_PAGE
        end == start + QUESTIONS_PER_PAGE
        formatted == [i \in 1..Len(selections) |-> format(selections[i])]
    IN  PySlice(formatted, start, end)

paginate(args, selections) ==
    LET page == IF Has(args.page) THEN Get(args.page) ELSE 1
        start == (page - 1) * QUESTIONS_PER_PAGE
        end == start + QUESTIONS_PER_PAGE
        formatted == [i \in 1..Len(selections) |-> format(selections[i])]
        current_questions == PySlice(formatted, start, end)
    IN  current_questions

(***************************************************************************)
(* Error handlers: abort(code) and unhandled exceptions.                   *)
(***************************************************************************)
bad_request == [status |-> 200, success |-> FALSE, error |-> 400,
                message |-> "Sorry, bad request"]
not_found == [status |-> 404, success |-> FALSE, error |-> 404,
              message |-> "Sorry, Resource not found"]
syntax_error == [status |-> 422, success |-> FALSE, error |-> 422,
                 message |-> "Sorry, failed to process request. Check your syntax."]
internal_server == [status |-> 500, success |-> FALSE, error |-> 500,
                    message |-> "Sorry, the server is down. Please try again later."]

NoResponse == [status |-> 0, success |-> FALSE, error |-> 0, message |-> ""]
NoQuestion == Row(0, <<>>, <<>>, <<>>, 0)

(***************************************************************************)
(* GET /questions                                                          *)
(***************************************************************************)
show_questions(args) ==
    LET all_questions == questions
        total_questions == Len(all_questions)
        paginated == paginate(args, all_questions)
    IN  /\ request' = [op |-> "show_questions", args |-> args]
        /\ paginated_questions' = paginated
        /\ response' = IF Len(paginated) = 0 THEN not_found
                       ELSE [status |-> 200, success |-> TRUE,
                             questions |-> paginated,
                             total_questions |-> total_questions,
                             categories |-> categories]
        /\ UNCHANGED <<storeVars, quizVars, sessVars>>

(***************************************************************************)
(* DELETE /questions/<id>                                                  *)
(***************************************************************************)
\* The body of the try block: "abort404" when the id is unknown, else the
\* row is deleted.
delete_try(id) ==
    LET question == QueryGet(id)
    IN  IF ~Has(question) THEN "abort404" ELSE "deleted"

delete_question(id) ==
    LET outcome == delete_try(id)
    IN  /\ request' = [op |-> "delete", id |-> id]
        /\ IF outcome = "deleted"
           THEN /\ questions' = SelectSeq(questions, LAMBDA r : r.id # id)
                /\ response' = [status |-> 200, success |-> TRUE, deleted |-> id]
           ELSE \* the bare except catches the abort and aborts with 422
                /\ questions' = questions
                /\ response' = syntax_error
        /\ paginated_questions' = <<>>
        /\ UNCHANGED <<categories, next_id, quizVars, sessVars>>

(***************************************************************************)
(* POST /questions                                                         *)
(***************************************************************************)
BodyKeys == {"question", "answer", "category", "difficulty"}

create_question(args, body) ==
    LET question_data == body
        missing == \E k \in BodyKeys : ~Has(question_data[k])
    IN  /\ request' = [op |-> "create", args |-> args, body |-> body]
        /\ IF missing
           THEN \* question_data[k] raises KeyError: no handler catches it
                /\ response' = internal_server
                /\ paginated_questions' = <<>>
                /\ UNCHANGED <<questions, next_id>>
           ELSE LET question == Row(next_id,
                                    Get(question_data["question"]),
                                    Get(question_data["answer"]),
                                    Get(question_data["category"]),
                                    Get(question_data["difficulty"]))
                IN  IF ~StoreValid(question)
                    THEN \* question.insert() raises: no handler catches it
                         /\ response' = internal_server
                         /\ paginated_questions' = <<>>
                         /\ UNCHANGED <<questions, next_id>>
                    ELSE LET all_questions == Append(questions, question)
                             paginated == paginate(args, all_questions)
                         IN  /\ next_id <= MaxId
                             /\ questions' = all_questions
                             /\ next_id' = next_id + 1
                             /\ paginated_questions' = paginated
                             /\ response' = [status |-> 200, success |-> TRUE,
                                             created |-> question.id,
                                             questions |-> paginated,
                                             total_questions |-> Len(all_questions)]
        /\ UNCHANGED <<categories, quizVars, sessVars>>

(***************************************************************************)
(* POST /questions/search                                                  *)
(***************************************************************************)
lower(c) == IF c = "A" THEN "a" ELSE IF c = "B" THEN "b" ELSE c

\* text ILIKE pattern: % matches any run of characters, _ any one character,
\* a backslash makes the next pattern character literal; letters match
\* without regard to case.
RECURSIVE ilike(_, _)
ilike(text, pattern) ==
    IF pattern = <<>> THEN text = <<>>
    ELSE IF Head(pattern) = "%"
         THEN \/ ilike(text, Tail(pattern))
              \/ text # <<>> /\ ilike(Tail(text), pattern)
    ELSE IF Head(pattern) = "_"
         THEN text # <<>> /\ ilike(Tail(text), Tail(pattern))
    ELSE IF Head(pattern) = "\\" /\ Len(pattern) >= 2
         THEN /\ text # <<>>
              /\ lower(Head(text)) = lower(pattern[2])
              /\ ilike(Tail(text), Tail(Tail(pattern)))
    ELSE /\ text # <<>>
         /\ lower(Head(text)) = lower(Head(pattern))
         /\ ilike(Tail(text), Tail(pattern))

\* '%{}%'.format(search_term)
SearchPattern(search_term) == <<"%">> \o search_term \o <<"%">>

search_questions(args, body) ==
    LET term == body["searchTerm"]
        truthy == Has(term) /\ Get(term) # <<>>
    IN  /\ request' = [op |-> "search", args |-> args, body |-> body]
        /\ IF ~truthy
           THEN \* search_term is unbound: UnboundLocalError, no handler catches it
                /\ response' = internal_server
                /\ paginated_questions' = <<>>
           ELSE LET search_term == Get(term)
                    found == SelectSeq(questions,
                                 LAMBDA r : ilike(r.question, SearchPattern(search_term)))
                IN  IF found = <<>>
                    THEN /\ response' = not_found
                         /\ paginated_questions' = <<>>
                    ELSE LET results == paginate(args, found)
                         IN  /\ paginated_questions' = results
                             /\ response' = [status |-> 200, success |-> TRUE,
                                             questions |-> results,
                                             total_questions |-> Len(found)]
        /\ UNCHANGED <<storeVars, quizVars, sessVars>>

(***************************************************************************)
(* GET /categories/<id>/questions                                          *)
(***************************************************************************)
\* The category query without its filter.
CategoryQuestions_all(id) == questions

\* Question.query.filter_by(category=str(id)).all()
CategoryQuestions(id) == FilterByCategory(PyStr(str(id)))

show_questions_by_category(id, args) ==
    LET category == CategoryById(id)
    IN  /\ request' = [op |-> "by_category", id |-> id, args |-> args]
        /\ IF category # {}
           THEN LET all_questions == CategoryQuestions(id)
                    paginated == paginate(args, all_questions)
                IN  /\ paginated_questions' = paginated
                    /\ response' = [status |-> 200, success |-> TRUE,
                                    questions |-> paginated,
                                    total_questions |-> Len(all_questions),
                                    current_category |->
                                        (CHOOSE c \in category : TRUE).type]
           ELSE /\ response' = not_found
                /\ paginated_questions' = <<>>
        /\ UNCHANGED <<storeVars, quizVars, sessVars>>

(***************************************************************************)
(* POST /quizzes                                                           *)
(***************************************************************************)
game_over == [status |-> 200, success |-> TRUE, message |-> "game over"]

\* category['id'] == 0 selects every question, else the category's.
QuizCandidates(category) ==
    IF category.id.t = "int" /\ category.id.n = 0
    THEN questions
    ELSE FilterByCategory(category.id)

\* The seen-before test that never fires.
IsOld_never(question, previous) == FALSE

\* next_question['id'] in previous_questions
IsOld(question, previous) == question.id \in Range(previous)

\* From the request up to the while loop: the first random choice either is
\* returned or sends the handler into the loop.
get_quiz_question(body) ==
    LET category == body.quiz_category
        previous == body.previous_questions
        candidates == QuizCandidates(category)
    IN  /\ pc = "idle"
        /\ request' = [op |-> "quiz", body |-> body]
        /\ quiz_questions' = candidates
        /\ previous_questions' = previous
        /\ IF candidates = <<>>
           THEN \* random.choice of an empty list raises IndexError
                /\ next_question' = NoQuestion
                /\ is_question_old' = FALSE
                /\ pc' = "idle"
                /\ response' = internal_server
           ELSE \E i \in 1..Len(candidates) :
                    LET chosen == format(candidates[i])
                    IN  /\ next_question' = chosen
                        /\ is_question_old' = IsOld(chosen, previous)
                        /\ IF IsOld(chosen, previous)
                           THEN /\ pc' = "while"
                                /\ response' = NoResponse
                           ELSE /\ pc' = "idle"
                                /\ response' = [status |-> 200, success |-> TRUE,
                                                question |-> chosen]
        /\ UNCHANGED <<storeVars, paginated_questions>>

\* One iteration of `while is_question_old`: is_question_old is not assigned
\* in the loop, so the only way out is the game-over return.
quiz_while_iter ==
    /\ pc = "while"
    /\ is_question_old
    /\ \E i \in 1..Len(quiz_questions) :
           next_question' = format(quiz_questions[i])
    /\ IF Len(previous_questions) = Len(quiz_questions)
       THEN /\ pc' = "idle"
            /\ response' = game_over
       ELSE /\ pc' = "while"
            /\ response' = response
    /\ UNCHANGED <<storeVars, request, paginated_questions, quiz_questions,
                   previous_questions, is_question_old, sessVars>>

(***************************************************************************)
(* The quiz client: it starts with no served question and resubmits the    *)
(* growing list of served ids on every turn.                               *)
(***************************************************************************)
SessionCall ==
    /\ sess_state = "ready"
    /\ get_quiz_question([quiz_category |-> sess_category,
                          previous_questions |-> sess_served])
    /\ sess_state' = "waiting"
    /\ UNCHANGED <<sess_category, sess_served>>

SessionReceive ==
    /\ sess_state = "waiting"
    /\ pc = "idle"
    /\ IF response.success /\ "question" \in DOMAIN response
       THEN /\ sess_served' = Append(sess_served, response.question.id)
            /\ sess_state' = "ready"
       ELSE /\ sess_served' = sess_served
            /\ sess_state' = IF response.success THEN "over" ELSE "failed"
    /\ UNCHANGED <<storeVars, request, response, paginated_questions, quizVars,
                   sess_category>>

(***************************************************************************)
(* Requests.                                                               *)
(***************************************************************************)
NoArgs == [page |-> <<>>]
SpecArgs == {NoArgs, [page |-> <<2>>]}
PagArgs == [page : Opt(-1..MaxPage)]
QuestionIds == 1..(MaxId + 1)
CategoryIds == 1..3
Terms == SeqsUpTo(TermChars, MaxTermLen)
SearchBodies == [searchTerm : Opt(Terms)]
Body(q, a, c, d) == [question |-> q, answer |-> a, category |-> c, difficulty |-> d]
CreateBodies ==
    {Body(<<TextA>>, <<AnswerX>>, <<str(1)>>, <<1>>),
     Body(<<TextB>>, <<AnswerX>>, <<str(2)>>, <<1>>),
     Body(<<TextA>>, <<<<>>>>, <<str(1)>>, <<1>>),
     Body(<<>>, <<AnswerX>>, <<str(1)>>, <<1>>),
     Body(<<TextA>>, <<>>, <<str(1)>>, <<1>>),
     Body(<<TextA>>, <<AnswerX>>, <<>>, <<1>>),
     Body(<<TextA>>, <<AnswerX>>, <<str(1)>>, <<>>),
     Body(<<>>, <<>>, <<>>, <<>>)}
QuizCategories == {[id |-> v, type |-> "click"] :
                      v \in {PyInt(0), PyInt(1), PyStr(str(2))}}
QuizIds == 1..MaxQuiz
\* The handler reads previous_questions only through `in` and len(): lists
\* in ascending order, repeats included, stand for all their reorderings.
PreviousLists ==
    {s \in SeqsUpTo(QuizIds, MaxPrev) : \A i \in 1..(Len(s) - 1) : s[i] <= s[i + 1]}
QuizBodies == [quiz_category : QuizCategories, previous_questions : PreviousLists]

ShowQuestions == \E args \in SpecArgs : show_questions(args)
DeleteQuestion == \E id \in QuestionIds : delete_question(id)
CreateQuestion == \E args \in {NoArgs}, body \in CreateBodies : create_question(args, body)
SearchQuestions == \E args \in {NoArgs}, body \in SearchBodies : search_questions(args, body)
ShowQuestionsByCategory ==
    \E id \in CategoryIds, args \in SpecArgs : show_questions_by_category(id, args)
GetQuizQuestion == \E body \in QuizBodies : get_quiz_question(body) /\ UNCHANGED sessVars
PagShowQuestions == \E args \in PagArgs : show_questions(args)

(***************************************************************************)
(* Initial states: a seeded store, no request handled yet.                 *)
(***************************************************************************)
\* Stores of at most n rows with ids 1..k, texts from T, categories from C.
SeededStores(n, T, C) ==
    UNION {{[i \in 1..k |-> Row(i, f[i][1], AnswerX, f[i][2], 1)] :
               f \in [1..k -> T \X C]} : k \in 0..n}

InitWith(stores) ==
    /\ questions \in stores
    /\ categories = SeedCategories
    /\ next_id = Len(questions) + 1
    /\ request = [op |-> "none"]
    /\ response = NoResponse
    /\ paginated_questions = <<>>
    /\ pc = "idle"
    /\ quiz_questions = <<>>
    /\ previous_questions = <<>>
    /\ next_question = NoQuestion
    /\ is_question_old = FALSE
    /\ sess_served = <<>>

\* The service starts on an empty questions table.
Init ==
    /\ InitWith({<<>>})
    /\ sess_category = [id |-> PyInt(0), type |-> "click"]
    /\ sess_state = "off"

\* The handlers over the questions table. get_quiz_question only reads the
\* table: it is checked under QuizSpec and SessionSpec, over seeded stores.
Next ==
    \/ ShowQuestions
    \/ DeleteQuestion
    \/ CreateQuestion
    \/ SearchQuestions
    \/ ShowQuestionsByCategory

Spec == Init /\ [][Next]_vars

\* The quiz selector alone, over every small store.
QuizInit ==
    /\ InitWith(SeededStores(MaxQuiz, {TextA}, CatRefs))
    /\ sess_category = [id |-> PyInt(0), type |-> "click"]
    /\ sess_state = "off"

QuizNext == GetQuizQuestion \/ quiz_while_iter

QuizSpec == QuizInit /\ [][QuizNext]_vars

\* A request that is being handled keeps running.
FairQuizSpec == QuizSpec /\ WF_vars(quiz_while_iter)

\* A quiz session of the client against an unchanged store.
SessionInit ==
    /\ InitWith(SeededStores(MaxQuiz, {TextA}, CatRefs))
    /\ sess_category \in QuizCategories
    /\ sess_state = "ready"

SessionNext == SessionCall \/ quiz_while_iter \/ SessionReceive

SessionSpec == SessionInit /\ [][SessionNext]_vars

FairSessionSpec ==
    /\ SessionSpec
    /\ WF_vars(SessionCall)
    /\ WF_vars(quiz_while_iter)
    /\ WF_vars(SessionReceive)

\* The list handler over stores of more than two pages.
PagInit ==
    /\ InitWith(SeededStores(MaxItems, {TextA}, {str(1)}))
    /\ sess_category = [id |-> PyInt(0), type |-> "click"]
    /\ sess_state = "off"

PagNext == PagShowQuestions

PagSpec == PagInit /\ [][PagNext]_vars

(***************************************************************************)
(* Properties of the quiz selector.                                        *)
(***************************************************************************)
IsQuizRequest == request.op = "quiz"
QuizResponded == IsQuizRequest /\ pc = "idle"
ReturnsQuestion == response.success /\ "question" \in DOMAIN response

\* The candidate set P of a category selector: every question for id 0,
\* else the questions whose category reference is that identifier.
PoolOf(category) ==
    IF category.id = PyInt(0)
    THEN Range(questions)
    ELSE {r \in Range(questions) : r.category = Native(category.id)}

RequestPool == PoolOf(request.body.quiz_category)
RequestServed == Range(request.body.previous_questions)
RequestUnseen == {r \in RequestPool : r.id \notin RequestServed}

\* C1: whenever the quiz selector returns a question, that question is a
\* member of the candidate set of the selected category and its id is not in
\* the previously-served set of the request.
QuizNoRepeat ==
    (QuizResponded /\ ReturnsQuestion) =>
        /\ \E r \in RequestPool : format(r) = response.question
        /\ response.question.id \notin RequestServed

\* C1 witness: a question is returned for one category although a question
\* of that category was already served.
QuizNoRepeatWitness ==
    /\ QuizResponded
    /\ ReturnsQuestion
    /\ request.body.quiz_category.id # PyInt(0)
    /\ RequestPool # Range(questions)
    /\ \E r \in RequestPool : r.id \in RequestServed

\* C2: a quiz request with at least one unseen candidate always completes,
\* and completes with a question.
QuizTotality ==
    []((IsQuizRequest /\ RequestUnseen # {}) =>
          /\ pc = "idle" => ReturnsQuestion
          /\ <>(pc = "idle"))

\* C3: a quiz request whose previously-served list is as long as the
\* candidate set is answered with the game-over result and no question.
QuizTermination ==
    (QuizResponded /\ Len(request.body.previous_questions) = Cardinality(RequestPool)) =>
        /\ response = game_over
        /\ ~ReturnsQuestion

\* C4: a quiz request over an empty candidate set is answered with the
\* game-over result, never with an error.
QuizEmptyPool ==
    (QuizResponded /\ RequestPool = {}) =>
        /\ response.success
        /\ response = game_over

(***************************************************************************)
(* Properties of the store handlers.                                       *)
(***************************************************************************)
RequestPage == IF Has(request.args.page) THEN Get(request.args.page) ELSE 1

\* C5: for a page number p >= 1 over N questions, paginate returns the items
\* at positions 10*(p-1)+1 .. min(N, 10*p) in order, min(10, max(0,
\* N-10*(p-1))) of them, the empty sequence when 10*(p-1) >= N, and GET
\* /questions answers an empty page with 404.
PaginationBounds ==
    (request.op = "show_questions" /\ RequestPage >= 1) =>
        LET p == RequestPage
            N == Len(questions)
            first == 10 * (p - 1) + 1
            last == Min(N, 10 * p)
        IN  /\ Len(paginated_questions) = Min(10, Max(0, N - 10 * (p - 1)))
            /\ Len(paginated_questions) = Max(0, last - first + 1)
            /\ \A i \in first..last :
                   paginated_questions[i - first + 1] = format(questions[i])
            /\ (10 * (p - 1) >= N) => paginated_questions = <<>>
            /\ IF paginated_questions = <<>>
               THEN response = not_found
               ELSE response.success /\ response.questions = paginated_questions

\* C5 witness: page 2 of 12 questions is the two questions 11 and 12.
PaginationWitness ==
    /\ request.op = "show_questions"
    /\ RequestPage = 2
    /\ Len(questions) = 12
    /\ Len(paginated_questions) = 2
    /\ paginated_questions[1].id = 11

\* term.lower() is a substring of text.lower()
Contains(text, term) ==
    \E i \in 1..(Len(text) - Len(term) + 1) :
        \A j \in 1..Len(term) : lower(text[i + j - 1]) = lower(term[j])

\* C6: for a non-empty search term, search returns exactly the questions
\* whose text contains the term as a case-insensitive substring, and 404
\* when there is none.
SearchContainment ==
    (request.op = "search" /\ Has(request.body.searchTerm)
        /\ Get(request.body.searchTerm) # <<>>) =>
        LET term == Get(request.body.searchTerm)
            matches == SelectSeq(questions, LAMBDA r : Contains(r.question, term))
        IN  IF matches = <<>>
            THEN response = not_found
            ELSE /\ response.success
                 /\ response.questions = [i \in 1..Len(matches) |-> format(matches[i])]

\* C7: GET /categories/c/questions answers 404 when no Category has id c,
\* and when one has, every question returned has category reference c.
CategoryScoping ==
    request.op = "by_category" =>
        IF \A c \in categories : c.id # request.id
        THEN response = not_found /\ ~response.success
        ELSE /\ response.success
             /\ \A i \in 1..Len(response.questions) :
                    response.questions[i].category = str(request.id)

\* C7 witness: the questions of a category are returned from a store that
\* also holds a question of another category.
CategoryScopingWitness ==
    /\ request.op = "by_category"
    /\ response.success
    /\ response.questions # <<>>
    /\ \E r \in Range(questions) : r.category # str(request.id)

\* C8: DELETE /questions/id removes exactly the question with that id and
\* answers success with deleted = id; when there is none it answers 404 and
\* leaves the store unchanged.
DeleteContract ==
    [][\A id \in QuestionIds :
          delete_question(id) =>
              IF \E r \in Range(questions) : r.id = id
              THEN /\ questions' = SelectSeq(questions, LAMBDA r : r.id # id)
                   /\ response'.success
                   /\ response'.deleted = id
              ELSE /\ response'.status = 404
                   /\ questions' = questions]_vars

InvalidBody(body) ==
    \/ \E k \in BodyKeys : ~Has(body[k])
    \/ Has(body.answer) /\ Get(body.answer) = <<>>

\* C9: POST /questions with a required field absent, or with an empty
\* answer, answers 422 with success false and inserts nothing.
CreateRejects ==
    [][\A body \in CreateBodies :
          (create_question(NoArgs, body) /\ InvalidBody(body)) =>
              /\ response'.status = 422
              /\ ~response'.success
              /\ questions' = questions]_vars

(***************************************************************************)
(* Properties of a quiz session.                                           *)
(***************************************************************************)
SessionPool == PoolOf(sess_category)

\* C10: the client is answered on every turn; its first |P| turns serve the
\* questions of P each exactly once and the next turn ends the game.
SessionServesAll ==
    /\ [](/\ Range(sess_served) \subseteq {r.id : r \in SessionPool}
          /\ Cardinality(Range(sess_served)) = Len(sess_served)
          /\ sess_state # "failed")
    /\ <>(/\ sess_state = "over"
          /\ Range(sess_served) = {r.id : r \in SessionPool})

====
